---- MODULE Spec2Model ----
(***************************************************************************)
(* Model of the token-acquire-price pipeline of blockchain-toolbox:        *)
(*   token-trade-history.py        ingestion (scan, event file, checkpoint) *)
(*                                 and the trade classifier                *)
(*   calculate_loss_free_price.py  price cache fill                        *)
(***************************************************************************)
EXTENDS Integers, Sequences, FiniteSets, TLC

(***************************************************************************)
(* Bounds of the model.                                                    *)
(***************************************************************************)
\* ingestion runs (invocations of main) in one behaviour
MaxRuns == 3
\* injected failures (a ledger query or a file write that raises) in one behaviour
MaxFail == 2
\* injected query failures in a behaviour that is one call of get_all_transfer_events
MaxScanFail == 7

\* transfer events handed to one call of process_transfer_events
MaxEvents == 2
\* calls of get_historical_prices in one behaviour
MaxFills == 2
\* calendar days 0..MaxDay
MaxDay == 1
\* rows of the trade history file handed to one valuation
MaxTrades == 2
MaxRequests == 4
MaxTime == 9
MaxCalls == 3

(***************************************************************************)
(* Program constants of token-trade-history.py.                            *)
(***************************************************************************)
\* batch_size = 500 (line 42)
InitBatchSize == 500
\* if batch_size > 1000 (line 110)
HalveThreshold == 1000
\* batch_size = 20000 (line 117)
ResetBatchSize == 20000
\* int(os.getenv('FROM_BLOCK', '0')) (line 264)
FROM_BLOCK == 0

(***************************************************************************)
(* Program constants of calculate_loss_free_price.py.                      *)
(***************************************************************************)
\* MAX_RETRIES = 6 (line 22)
MAX_RETRIES == 6
RATE_LIMIT_CALLS == 30
RATE_LIMIT_PERIOD == 60

\* f"{token_address}_{chain_id}" (lines 135, 153): the one key of a run
Key == "token_chain"

\* values w3.eth.block_number takes over time (ascending as the chain grows)
Heads == {0, 400, 600, 999, 1000, 1002}

\* blocks of the ledger that hold one Transfer log of the token each
LedgerBlocks == {0, 2, 550, 1000}

VARIABLES
    head,                   \* w3.eth.block_number
    files,                  \* event CSV files: block suffix -> rows
    records,                \* event_log_record.json: key -> latest_block
    records_ok,             \* event_log_record.json parses as JSON
    pc,                     \* position of the run of main
    mode,                   \* "none" | "incr" | "full" | "call": the scan in progress / last done
    events,                 \* main's / load_transfer_events' list `events`
    latest_recorded_block,  \* load_transfer_events local (line 185)
    current_latest_block,   \* load_transfer_events local (line 190)
    from_block,             \* get_all_transfer_events argument
    current_block,          \* get_all_transfer_events local (line 41)
    batch_size,             \* get_all_transfer_events local (line 42)
    latest_block,           \* get_all_transfer_events local (line 43)
    scan_events,            \* get_all_transfer_events local `events` (line 40)
    runs,                   \* runs of main started so far
    fails,                  \* failures injected so far
    fail_budget,            \* failures that may be injected in this behaviour
    failed,                 \* history: the queries of this scan that failed
    outcome,                \* "none" | "done" | "crashed": how the last run ended
    okRanges,               \* history: <<from, to>> of the queries of this run that completed
    start,                  \* history: files, records, head at the start of the run
    \* process_transfer_events
    c_events,               \* argument `events`
    dex_addresses,          \* argument
    user_addresses,         \* argument
    decimals,               \* argument
    processed_events,       \* the returned list
    c_pc,                   \* "off" | "ready" | "done"
    \* get_historical_prices
    cache_file,             \* {coin_id}_price_cache.json: date -> price
    cache_ok,               \* {coin_id}_price_cache.json parses as JSON
    prices,                 \* local dict `prices`
    dates_to_fetch,         \* local list
    i,                      \* local index into dates_to_fetch (from 0)
    retry_count,            \* local
    p_pc,                   \* "off" | "idle" | "fetch" | "save"
    fills,                  \* fills started so far
    cache0,                 \* history: cache_file at the start of the fill
    req_days,               \* history: <<day of start_date, day of end_date>> of the fill
    requested,              \* history: dates a request was sent for in this fill
    cur_req,                \* history: the date last requested, its requests, their kind
    got,                    \* history: date -> price of the 200 answers of this fill
    all_ok,                 \* history: every request of this fill got a 200 with data
    fill_end,               \* history: "none" | "early" | "running" | "saved" | "save_failed"
    prev_absent,            \* history: dates the fill before requested and left absent
    \* calculate_loss_free_price, process_trade_history
    trades,                 \* rows of the trade history file
    v_prices,               \* the mapping returned by get_historical_prices
    total_cost,             \* process_trade_history local
    total_revenue,          \* process_trade_history local
    remaining_tokens,       \* process_trade_history local
    v_i,                    \* rows read so far
    warnings,               \* the warnings printed so far
    remaining_amount,       \* calculate_loss_free_price local
    loss_free_price,        \* calculate_loss_free_price local, <<numerator, denominator>>
    v_pc,                   \* "off" | "ready" | "loop" | "result" | "done" | "error"
    \* calculate_loss_free_price.py, rate_limit and its callers
    now,                    \* time.time(), in seconds
    last_call_time,         \* the global of line 19
    sent,                   \* history: the requests sent to the price API, with their times
    r_pc,                   \* "off" | "coin_id" | "prices" | "done"
    \* two processes in update_event_log_record, one per key
    u_pc,                   \* per key: "off" | "idle" | "loaded"
    u_records,              \* per key: the records the process read (lines 147-151)
    u_block,                \* per key: the latest_block argument of the call
    u_written,              \* history, per key: the block its last write recorded, -1 if none
    u_calls                 \* history: calls of update_event_log_record started

ingestVars == <<head, files, records, records_ok, fail_budget, pc, mode, events, latest_recorded_block,
                current_latest_block, from_block, current_block, batch_size,
                latest_block, scan_events, failed, runs, fails, outcome, okRanges, start>>

classVars == <<c_events, dex_addresses, user_addresses, decimals,
               processed_events, c_pc>>

priceVars == <<cache_file, cache_ok, prices, dates_to_fetch, i, retry_count, p_pc, fills, cache0,
               req_days, requested, cur_req, got, all_ok, fill_end, prev_absent>>

valueVars == <<trades, v_prices, total_cost, total_revenue, remaining_tokens, v_i,
               warnings, remaining_amount, loss_free_price, v_pc>>

rateVars == <<now, last_call_time, sent, r_pc>>

updVars == <<u_pc, u_records, u_block, u_written, u_calls>>

vars == <<ingestVars, classVars, priceVars, valueVars, rateVars, updVars>>

(***************************************************************************)
(* Helpers.                                                                *)
(***************************************************************************)
Min(a, b) == IF a <= b THEN a ELSE b

Empty == [x \in {} |-> 0]

RECURSIVE Perms(_)
\* every order in which the ledger may return the logs of a set
Perms(S) ==
    IF S = {} THEN {<<>>}
    ELSE UNION {{<<x>> \o p : p \in Perms(S \ {x})} : x \in S}

\* str(n): the decimal digits of a block number, as in the f-string of line 123
RECURSIVE Digits(_)
Digits(n) == IF n < 10 THEN <<n>> ELSE Digits(n \div 10) \o <<n % 10>>

\* Python's str <: lexicographic by character, a proper prefix is smaller
\* (the character after the digits, '.', sorts below every digit)
RECURSIVE StrLess(_, _)
StrLess(a, b) ==
    IF a = <<>> THEN b # <<>>
    ELSE IF b = <<>> THEN FALSE
    ELSE IF a[1] # b[1] THEN a[1] < b[1]
    ELSE StrLess(Tail(a), Tail(b))

\* max(files) (line 171): the file names differ only in the block suffix
latest_file(fs) ==
    CHOOSE f \in DOMAIN fs :
        \A g \in DOMAIN fs : g = f \/ StrLess(Digits(g), Digits(f))

\* w3.eth.get_logs over [a, b]: the logs of the blocks in range
LogsIn(a, b) == {[block_number |-> x] : x \in {y \in LedgerBlocks : a <= y /\ y <= b}}

\* get_latest_recorded_block (lines 130-141): 0 when the file is missing, does
\* not parse (JSONDecodeError) or has no such key
get_latest_recorded_block(recs, ok, key) ==
    IF ok /\ key \in DOMAIN recs THEN recs[key] ELSE 0

\* update_event_log_record (lines 146-160): read (records stays {} when the file
\* is missing or does not parse), set the key, write back
update_event_log_record(recs, ok, key, blk) ==
    LET loaded == IF ok THEN recs ELSE Empty
    IN [k \in DOMAIN loaded \cup {key} |-> IF k = key THEN blk ELSE loaded[k]]

\* save_transfer_events (lines 123-127): (over)write the file of that block suffix
save_transfer_events(fs, evs, blk) ==
    [f \in DOMAIN fs \cup {blk} |-> IF f = blk THEN evs ELSE fs[f]]

\* the block number load_transfer_events commits (line 201)
CommitBlock_LastEvent(evs, clb) ==
    IF evs = <<>> THEN 0 ELSE evs[Len(evs)].block_number
CommitBlock(evs, clb) == clb

\* order of the steps of load_transfer_events after the scan (lines 195-201):
\* extend and save the event file, then update the record, then return to main
IncrAfter_CommitFirst(p) ==
    CASE p = "scan" -> "commit" [] p = "commit" -> "save" [] OTHER -> "check"
IncrAfter(p) ==
    CASE p = "scan" -> "save" [] p = "save" -> "commit" [] OTHER -> "check"

\* end_block = min(current_block + batch_size, latest_block) (line 54)
end_block_NoClamp == current_block + batch_size
end_block == Min(current_block + batch_size, latest_block)

(***************************************************************************)
(* Ingestion: one run of main at a time for the key.                       *)
(***************************************************************************)
\* the locals of a process that has not run yet
IngestLocalsStart ==
    /\ pc = "idle"
    /\ mode = "none"
    /\ events = <<>>
    /\ latest_recorded_block = 0
    /\ current_latest_block = 0
    /\ from_block = 0
    /\ current_block = 0
    /\ batch_size = InitBatchSize
    /\ latest_block = 0
    /\ scan_events = <<>>
    /\ failed = <<>>
    /\ runs = 0
    /\ fails = 0
    /\ outcome = "none"
    /\ okRanges = {}
    /\ start = [files |-> files, records |-> records, head |-> head, stable |-> FALSE]

\* no event file and no record file yet
IngestStart ==
    /\ files = Empty
    /\ records = Empty
    /\ records_ok = TRUE
    /\ fail_budget = MaxFail
    /\ IngestLocalsStart

IngestInit == head \in Heads /\ IngestStart

\* the ingestion state of a behaviour that only classifies or only fills prices
IngestOff == head = 0 /\ IngestStart

scanLocals == <<from_block, current_block, batch_size, latest_block, scan_events, failed>>
loadLocals == <<latest_recorded_block, current_latest_block>>

\* the chain grows
HeadAdvance ==
    /\ \E h \in Heads : h > head /\ head' = h
    /\ UNCHANGED <<files, records, records_ok, fail_budget, pc, mode, events, loadLocals, scanLocals,
                   runs, fails, outcome, okRanges, start>>

\* what a run leaves behind when it starts
BeginRun ==
    /\ pc = "idle"
    /\ runs < MaxRuns
    /\ runs' = runs + 1
    /\ mode' = "none"
    /\ okRanges' = {}
    /\ start' = [files |-> files, records |-> records, head |-> head,
                 stable |-> (outcome = "done" /\ start.head = head)]
    /\ from_block' = 0 /\ current_block' = 0 /\ batch_size' = InitBatchSize
    /\ latest_block' = 0 /\ scan_events' = <<>> /\ failed' = <<>>
    /\ UNCHANGED <<head, files, records, records_ok, fail_budget, fails, outcome>>

\* load_transfer_events, lines 167-169: no event file of the key
LoadNoFiles ==
    /\ BeginRun
    /\ DOMAIN files = {}
    /\ events' = <<>>
    /\ pc' = "check"
    /\ UNCHANGED loadLocals

\* load_transfer_events, lines 171-190: read max(files), the record, the head
LoadFiles ==
    /\ BeginRun
    /\ DOMAIN files # {}
    /\ events' = files[latest_file(files)]
    /\ latest_recorded_block' = get_latest_recorded_block(records, records_ok, Key)
    /\ current_latest_block' = head
    /\ pc' = "loaded"

\* get_all_transfer_events, lines 40-43
ScanInit(fb) ==
    /\ from_block' = fb
    /\ current_block' = fb
    /\ batch_size' = InitBatchSize
    /\ latest_block' = head
    /\ scan_events' = <<>>
    /\ failed' = <<>>
    /\ pc' = "scan"

\* line 193 true: scan the delta
IncrScanStart ==
    /\ pc = "loaded"
    /\ latest_recorded_block < current_latest_block
    /\ ScanInit(latest_recorded_block + 1)
    /\ mode' = "incr"
    /\ UNCHANGED <<head, files, records, records_ok, fail_budget, events, loadLocals, runs, fails,
                   outcome, okRanges, start>>

\* line 193 false: return the loaded events
IncrNoNew ==
    /\ pc = "loaded"
    /\ ~(latest_recorded_block < current_latest_block)
    /\ pc' = "check"
    /\ UNCHANGED <<head, files, records, records_ok, fail_budget, mode, events, loadLocals, scanLocals,
                   runs, fails, outcome, okRanges, start>>

\* main, lines 302-304: no events, full scan from FROM_BLOCK
FullScanStart ==
    /\ pc = "check"
    /\ events = <<>>
    /\ ScanInit(FROM_BLOCK)
    /\ mode' = "full"
    /\ okRanges' = {}
    /\ UNCHANGED <<head, files, records, records_ok, fail_budget, events, loadLocals, runs, fails,
                   outcome, start>>

\* main, line 302 false: the run goes on to classify and ends
RunDone ==
    /\ pc = "check"
    /\ events # <<>>
    /\ pc' = "idle"
    /\ outcome' = "done"
    /\ UNCHANGED <<head, files, records, records_ok, fail_budget, mode, events, loadLocals, scanLocals,
                   runs, fails, okRanges, start>>

\* line 55: latest_block = from_block divides by zero, outside the try:
\* the exception leaves get_all_transfer_events and main
ScanCrash ==
    /\ pc = "scan"
    /\ latest_block = from_block
    /\ pc' = "idle"
    /\ outcome' = "crashed"
    /\ UNCHANGED <<head, files, records, records_ok, fail_budget, mode, events, loadLocals, scanLocals,
                   runs, fails, okRanges, start>>

\* lines 73-105: the query and every timestamp lookup succeed
ScanOk ==
    /\ pc = "scan"
    /\ latest_block # from_block
    /\ \E p \in Perms(LogsIn(current_block, end_block)) :
           scan_events' = scan_events \o p
    /\ okRanges' = okRanges \cup {<<current_block, end_block>>}
    /\ IF end_block >= latest_block
         THEN /\ pc' = CASE mode = "incr" -> IncrAfter("scan")
                          [] mode = "full" -> "fullsave"
                          [] OTHER -> "returned"
              /\ current_block' = current_block
         ELSE /\ pc' = "scan"
              /\ current_block' = end_block + 1
    /\ UNCHANGED <<head, files, records, records_ok, fail_budget, mode, events, loadLocals, from_block,
                   batch_size, latest_block, failed, runs, fails, outcome, start>>

\* lines 107-117: get_logs raises, or get_block raises after k logs were appended
ScanFail ==
    /\ pc = "scan"
    /\ latest_block # from_block
    /\ fails < fail_budget
    /\ fails' = fails + 1
    /\ \E p \in Perms(LogsIn(current_block, end_block)) :
         \E k \in 0..(IF Len(p) = 0 THEN 0 ELSE Len(p) - 1) :
           /\ scan_events' = scan_events \o SubSeq(p, 1, k)
           /\ failed' = Append(failed, [from |-> current_block, to |-> end_block,
                                        size |-> batch_size, appended |-> k])
    /\ IF batch_size > HalveThreshold
         THEN /\ batch_size' = batch_size \div 2
              /\ current_block' = current_block
         ELSE /\ current_block' = end_block + 1
              /\ batch_size' = ResetBatchSize
    /\ pc' = "scan"
    /\ UNCHANGED <<head, files, records, records_ok, fail_budget, mode, events, loadLocals, from_block,
                   latest_block, runs, outcome, okRanges, start>>

\* lines 196-199: extend the loaded events and write the file of the new head
IncrSave ==
    /\ pc = "save"
    /\ events' = events \o scan_events
    /\ files' = save_transfer_events(files, events', current_latest_block)
    /\ pc' = IncrAfter("save")
    /\ UNCHANGED <<head, records, records_ok, fail_budget, mode, loadLocals, scanLocals, runs, fails,
                   outcome, okRanges, start>>

\* line 199 raises (the file cannot be written): the exception leaves main
IncrSaveFail ==
    /\ pc = "save"
    /\ fails < fail_budget
    /\ fails' = fails + 1
    /\ events' = events \o scan_events
    /\ pc' = "idle"
    /\ outcome' = "crashed"
    /\ UNCHANGED <<head, files, records, records_ok, fail_budget, mode, loadLocals, scanLocals, runs,
                   okRanges, start>>

\* line 201: update_event_log_record writes the record
IncrCommit ==
    /\ pc = "commit"
    /\ records' = update_event_log_record(records, records_ok, Key,
                                          CommitBlock(events, current_latest_block))
    /\ records_ok' = TRUE
    /\ pc' = IncrAfter("commit")
    /\ UNCHANGED <<head, files, fail_budget, mode, events, loadLocals, scanLocals, runs,
                   fails, outcome, okRanges, start>>

\* lines 161-162: the record cannot be written, the error is printed and dropped
IncrCommitFail ==
    /\ pc = "commit"
    /\ fails < fail_budget
    /\ fails' = fails + 1
    /\ pc' = IncrAfter("commit")
    /\ UNCHANGED <<head, files, records, records_ok, fail_budget, mode, events, loadLocals, scanLocals,
                   runs, outcome, okRanges, start>>

\* main, lines 304-305: store the full scan under the head read now; no record
FullSave ==
    /\ pc = "fullsave"
    /\ events' = scan_events
    /\ files' = save_transfer_events(files, events', head)
    /\ pc' = "idle"
    /\ outcome' = "done"
    /\ UNCHANGED <<head, records, records_ok, fail_budget, mode, loadLocals, scanLocals, runs, fails,
                   okRanges, start>>

\* line 305 raises: the exception leaves main
FullSaveFail ==
    /\ pc = "fullsave"
    /\ fails < fail_budget
    /\ fails' = fails + 1
    /\ events' = scan_events
    /\ pc' = "idle"
    /\ outcome' = "crashed"
    /\ UNCHANGED <<head, files, records, records_ok, fail_budget, mode, loadLocals, scanLocals, runs,
                   okRanges, start>>

(***************************************************************************)
(* Trade classifier: process_transfer_events.                              *)
(***************************************************************************)
Addresses == {"a1", "a2", "a3"}

\* raw amounts of the transfers (base units)
RawAmounts == {150}

RECURSIVE Pow10(_)
Pow10(n) == IF n = 0 THEN 1 ELSE 10 * Pow10(n - 1)

\* lines 215-233: the label of a transfer, "skip" for the continue of line 233
LabelOf_NoOutputUnknown(from_address, to_address, dex, users) ==
    LET from_is_dex == from_address \in dex
        to_is_dex == to_address \in dex
        from_is_user == from_address \in users
        to_is_user == to_address \in users
    IN  IF from_is_dex /\ to_is_user THEN "Buy"
        ELSE IF from_is_user /\ to_is_dex THEN "Sell"
        ELSE IF from_is_user /\ to_is_user THEN "Transfer within"
        ELSE IF to_is_user THEN "Input unknown"
        ELSE "skip"
LabelOf_ToUserFirst(from_address, to_address, dex, users) ==
    LET from_is_dex == from_address \in dex
        to_is_dex == to_address \in dex
        from_is_user == from_address \in users
        to_is_user == to_address \in users
    IN  IF to_is_user /\ ~from_is_user THEN "Input unknown"
        ELSE IF from_is_dex /\ to_is_user THEN "Buy"
        ELSE IF from_is_user /\ to_is_dex THEN "Sell"
        ELSE IF from_is_user /\ to_is_user THEN "Transfer within"
        ELSE IF from_is_user THEN "Output unknown"
        ELSE "skip"
LabelOf_WithinFirst(from_address, to_address, dex, users) ==
    LET from_is_dex == from_address \in dex
        to_is_dex == to_address \in dex
        from_is_user == from_address \in users
        to_is_user == to_address \in users
    IN  IF from_is_user /\ to_is_user THEN "Transfer within"
        ELSE IF from_is_dex /\ to_is_user THEN "Buy"
        ELSE IF from_is_user /\ to_is_dex THEN "Sell"
        ELSE IF to_is_user THEN "Input unknown"
        ELSE IF from_is_user THEN "Output unknown"
        ELSE "skip"
LabelOf(from_address, to_address, dex, users) ==
    LET from_is_dex == from_address \in dex
        to_is_dex == to_address \in dex
        from_is_user == from_address \in users
        to_is_user == to_address \in users
    IN  IF from_is_dex /\ to_is_user THEN "Buy"
        ELSE IF from_is_user /\ to_is_dex THEN "Sell"
        ELSE IF from_is_user /\ to_is_user THEN "Transfer within"
        ELSE IF to_is_user THEN "Input unknown"
        ELSE IF from_is_user THEN "Output unknown"
        ELSE "skip"

\* lines 208-244: the amount event['amount'] / 10 ** decimals is kept as the
\* exact fraction <<numerator, denominator>>
RECURSIVE process_transfer_events(_, _, _, _)
process_transfer_events(evs, dex, users, dec) ==
    IF evs = <<>> THEN <<>>
    ELSE LET event == Head(evs)
             label == LabelOf(event.from, event.to, dex, users)
             rest == process_transfer_events(Tail(evs), dex, users, dec)
         IN  IF label = "skip" THEN rest
             ELSE <<[label |-> label,
                     amount |-> <<event.amount, Pow10(dec)>>,
                     from |-> event.from,
                     to |-> event.to,
                     block_number |-> event.block_number,
                     timestamp |-> event.timestamp]>> \o rest

\* a list of transfers: the k-th one is the log of block k
MkEvents(f) ==
    [k \in DOMAIN f |-> [from |-> f[k][1], to |-> f[k][2], amount |-> f[k][3],
                         block_number |-> k, timestamp |-> k]]

ClassOff ==
    /\ c_events = <<>>
    /\ dex_addresses = {}
    /\ user_addresses = {}
    /\ decimals = 0
    /\ processed_events = <<>>
    /\ c_pc = "off"

ClassInit ==
    /\ \E n \in 0..MaxEvents :
         c_events \in {MkEvents(f) : f \in [1..n -> Addresses \X Addresses \X RawAmounts]}
    /\ dex_addresses \in SUBSET Addresses
    /\ user_addresses \in SUBSET Addresses
    /\ decimals \in {0, 2}
    /\ processed_events = <<>>
    /\ c_pc = "ready"

\* main, line 309
Classify ==
    /\ c_pc = "ready"
    /\ processed_events' =
           process_transfer_events(c_events, dex_addresses, user_addresses, decimals)
    /\ c_pc' = "done"
    /\ UNCHANGED <<c_events, dex_addresses, user_addresses, decimals>>

(***************************************************************************)
(* Price cache: get_historical_prices for one coin.                        *)
(***************************************************************************)
Days == 0..MaxDay

\* times of day of an instant (a trade timestamp): morning, evening
TimesOfDay == {"am", "pm"}

\* datetimes: <<day, time of day>>
Instants == Days \X TimesOfDay

\* datetime <= datetime
InstantLeq(a, b) ==
    \/ a[1] < b[1]
    \/ a[1] = b[1] /\ (a[2] = b[2] \/ a[2] = "am")

\* strftime('%Y-%m-%d'): the calendar day of an instant
date_key(t) == t[1]

\* prices the remote API may answer (JSON numbers, kept as their text)
PriceValues == {"1.0", "2.0"}

\* a 'usd' value that is not a number (JSON null)
NullPrice == "null"

\* load_cached_prices (lines 70-81): the file's mapping, {} when there is none
\* or when reading it raises
load_cached_prices(cf, ok) == IF ok THEN cf ELSE Empty

\* lines 99-106: from start_date in steps of one day while current_date <= end_date,
\* the instants whose date is not in prices
RECURSIVE DatesFrom_All(_, _, _)
DatesFrom_All(current_date, end_date, pr) ==
    IF ~InstantLeq(current_date, end_date) THEN <<>>
    ELSE <<current_date>>
         \o DatesFrom_All(<<current_date[1] + 1, current_date[2]>>, end_date, pr)
RECURSIVE DatesFrom(_, _, _)
DatesFrom(current_date, end_date, pr) ==
    IF ~InstantLeq(current_date, end_date) THEN <<>>
    ELSE (IF date_key(current_date) \notin DOMAIN pr THEN <<current_date>> ELSE <<>>)
         \o DatesFrom(<<current_date[1] + 1, current_date[2]>>, end_date, pr)

\* prices[date] = price (line 137)
SetPrice(pr, d, v) == [x \in DOMAIN pr \cup {d} |-> IF x = d THEN v ELSE pr[x]]

\* no request sent yet for any date of the fill
NoRequest == [idx |-> 0, count |-> 0, kind |-> "none", last |-> "none"]

\* the locals of a process that has not called get_historical_prices yet
PriceLocalsStart ==
    /\ prices = Empty
    /\ dates_to_fetch = <<>>
    /\ i = 0
    /\ retry_count = 0
    /\ fills = 0
    /\ cache0 = Empty
    /\ req_days = <<>>
    /\ requested = {}
    /\ cur_req = NoRequest
    /\ got = Empty
    /\ all_ok = TRUE
    /\ fill_end = "none"
    /\ prev_absent = {}

\* no cache file yet
PriceStart ==
    /\ cache_file = Empty
    /\ cache_ok = TRUE
    /\ PriceLocalsStart

PriceOff == p_pc = "off" /\ PriceStart

PriceInit == p_pc = "idle" /\ PriceStart

\* lines 96-117: load the cache, list the missing dates; nothing to fetch returns
FillStart ==
    /\ p_pc = "idle"
    /\ fills < MaxFills
    /\ fills' = fills + 1
    /\ cache0' = cache_file
    /\ prices' = load_cached_prices(cache_file, cache_ok)
    /\ \E start_date, end_date \in Instants :
         /\ InstantLeq(start_date, end_date)
         /\ req_days' = <<date_key(start_date), date_key(end_date)>>
         /\ dates_to_fetch' = DatesFrom(start_date, end_date, prices')
    /\ i' = 0
    /\ retry_count' = 0
    /\ p_pc' = IF dates_to_fetch' = <<>> THEN "idle" ELSE "fetch"
    /\ fill_end' = IF dates_to_fetch' = <<>> THEN "early" ELSE "running"
    /\ prev_absent' = {d \in requested : d \notin DOMAIN cache_file}
    /\ requested' = {}
    /\ cur_req' = NoRequest
    /\ got' = Empty
    /\ all_ok' = TRUE
    /\ UNCHANGED <<cache_file, cache_ok>>

\* line 131: requests.get for dates_to_fetch[i], answered with `status`
Request(status) ==
    LET same == cur_req.idx = i + 1
        \* every request sent for this date before this one was answered 429
        only429 == ~same \/ cur_req.kind = "429s"
    IN
    /\ requested' = requested \cup {date_key(dates_to_fetch[i + 1])}
    /\ cur_req' = [idx   |-> i + 1,
                   count |-> (IF same THEN cur_req.count ELSE 0) + 1,
                   kind  |-> CASE only429 /\ status = "429" -> "429s"
                               [] only429 /\ status = "200" -> "429s_then_200"
                               [] OTHER -> "mixed",
                   last  |-> status]
    /\ all_ok' = (all_ok /\ status = "200")

\* line 164, then line 116 and line 118 for the next date
NextDate_ReturnAtEnd ==
    /\ i' = i + 1
    /\ retry_count' = 0
    /\ p_pc' = IF i + 1 < Len(dates_to_fetch) THEN "fetch" ELSE "idle"
NextDate ==
    /\ i' = i + 1
    /\ retry_count' = 0
    /\ p_pc' = IF i + 1 < Len(dates_to_fetch) THEN "fetch" ELSE "save"

\* lines 133-139: status 200 with market data
Fetch200 ==
    /\ p_pc = "fetch"
    /\ Request("200")
    /\ \E price \in PriceValues :
         /\ prices' = SetPrice(prices, date_key(dates_to_fetch[i + 1]), price)
         /\ got' = SetPrice(got, date_key(dates_to_fetch[i + 1]), price)
    /\ NextDate
    /\ UNCHANGED <<cache_file, cache_ok, dates_to_fetch, fills, cache0, req_days, fill_end,
                   prev_absent>>

\* retry_count += 1, then retry the date while retry_count < MAX_RETRIES
\* (lines 144-150 and 156-162)
CountAttempt_NoRetry == NextDate
CountAttempt_Inclusive ==
    IF retry_count + 1 <= MAX_RETRIES
      THEN /\ retry_count' = retry_count + 1
           /\ UNCHANGED <<i, p_pc>>
      ELSE NextDate
CountAttempt ==
    IF retry_count + 1 < MAX_RETRIES
      THEN /\ retry_count' = retry_count + 1
           /\ UNCHANGED <<i, p_pc>>
      ELSE NextDate

\* lines 136-138: status 200 whose 'usd' value is not a number: line 137 stores
\* it, the format of line 138 raises, and lines 155-162 count the attempt
Fetch200Unformattable ==
    /\ p_pc = "fetch"
    /\ Request("200null")
    /\ prices' = SetPrice(prices, date_key(dates_to_fetch[i + 1]), NullPrice)
    /\ CountAttempt
    /\ UNCHANGED <<cache_file, cache_ok, dates_to_fetch, fills, cache0, req_days, got,
                   fill_end, prev_absent>>

\* lines 140-142: status 200 without market data, move to the next date
FetchNoData ==
    /\ p_pc = "fetch"
    /\ Request("nodata")
    /\ NextDate
    /\ UNCHANGED <<cache_file, cache_ok, prices, dates_to_fetch, fills, cache0, req_days,
                   got, fill_end, prev_absent>>

\* lines 151-153: a status other than 200 and 429, move to the next date
FetchOtherStatus ==
    /\ p_pc = "fetch"
    /\ Request("other")
    /\ NextDate
    /\ UNCHANGED <<cache_file, cache_ok, prices, dates_to_fetch, fills, cache0, req_days,
                   got, fill_end, prev_absent>>

\* lines 143-150: status 429
Fetch429 ==
    /\ p_pc = "fetch"
    /\ Request("429")
    /\ CountAttempt
    /\ UNCHANGED <<cache_file, cache_ok, prices, dates_to_fetch, fills, cache0, req_days,
                   got, fill_end, prev_absent>>

\* lines 155-162: the request (or reading its answer) raises
FetchRaise ==
    /\ p_pc = "fetch"
    /\ Request("raise")
    /\ CountAttempt
    /\ UNCHANGED <<cache_file, cache_ok, prices, dates_to_fetch, fills, cache0, req_days,
                   got, fill_end, prev_absent>>

\* lines 166-168: save_cached_prices writes the merged mapping
SaveCache ==
    /\ p_pc = "save"
    /\ cache_file' = prices
    /\ cache_ok' = TRUE
    /\ p_pc' = "idle"
    /\ fill_end' = "saved"
    /\ UNCHANGED <<prices, dates_to_fetch, i, retry_count, fills, cache0, req_days,
                   requested, cur_req, got, all_ok, prev_absent>>

\* lines 90-91: the file cannot be opened for writing, the error is printed
SaveCacheFail ==
    /\ p_pc = "save"
    /\ p_pc' = "idle"
    /\ fill_end' = "save_failed"
    /\ UNCHANGED <<cache_file, cache_ok, prices, dates_to_fetch, i, retry_count, fills, cache0,
                   req_days, requested, cur_req, got, all_ok, prev_absent>>

(***************************************************************************)
(* Valuation: calculate_loss_free_price and process_trade_history.  Amounts *)
(* and prices are whole numbers, sums and products are exact, and a quotient *)
(* is kept as the pair <<numerator, denominator>>.                          *)
(***************************************************************************)
\* labels of the rows of a trade history file (written by process_transfer_events)
TradeLabels == {"Buy", "Sell", "Transfer within"}

\* amounts of the rows
TradeAmounts == {40, 100}

\* calendar days of the rows' timestamps
TradeDays == {0, 1}

\* prices of a day
UnitPrices == {1, 2}

\* the rows a trade history file may hold
TradeRows == [label : TradeLabels, amount : TradeAmounts, day : TradeDays]

\* a quotient a / b
Quotient(a, b) == <<a, b>>

\* line 233: loss_free_price = 0
ZeroPrice == <<0, 1>>

\* equality of two quotients
SameQuotient(q, r) == q[1] * r[2] = r[1] * q[2]

\* lines 183-194: the totals after one row
ApplyTrade_SellAddsTokens(tot, row, pr) ==
    IF row.day \notin DOMAIN pr THEN tot
    ELSE CASE row.label = "Buy" ->
                [total_cost |-> tot.total_cost + row.amount * pr[row.day],
                 total_revenue |-> tot.total_revenue,
                 remaining_tokens |-> tot.remaining_tokens + row.amount]
           [] row.label = "Sell" ->
                [total_cost |-> tot.total_cost,
                 total_revenue |-> tot.total_revenue + row.amount * pr[row.day],
                 remaining_tokens |-> tot.remaining_tokens + row.amount]
           [] OTHER -> tot
ApplyTrade_SellClamped(tot, row, pr) ==
    IF row.day \notin DOMAIN pr THEN tot
    ELSE CASE row.label = "Buy" ->
                [total_cost |-> tot.total_cost + row.amount * pr[row.day],
                 total_revenue |-> tot.total_revenue,
                 remaining_tokens |-> tot.remaining_tokens + row.amount]
           [] row.label = "Sell" ->
                [total_cost |-> tot.total_cost,
                 total_revenue |-> tot.total_revenue + row.amount * pr[row.day],
                 remaining_tokens |-> IF tot.remaining_tokens < row.amount THEN 0
                                      ELSE tot.remaining_tokens - row.amount]
           [] OTHER -> tot
ApplyTrade_OtherAsBuy(tot, row, pr) ==
    IF row.day \notin DOMAIN pr THEN tot
    ELSE CASE row.label = "Sell" ->
                [total_cost |-> tot.total_cost,
                 total_revenue |-> tot.total_revenue + row.amount * pr[row.day],
                 remaining_tokens |-> tot.remaining_tokens - row.amount]
           [] OTHER ->
                [total_cost |-> tot.total_cost + row.amount * pr[row.day],
                 total_revenue |-> tot.total_revenue,
                 remaining_tokens |-> tot.remaining_tokens + row.amount]
ApplyTrade(tot, row, pr) ==
    IF row.day \notin DOMAIN pr THEN tot
    ELSE CASE row.label = "Buy" ->
                [total_cost |-> tot.total_cost + row.amount * pr[row.day],
                 total_revenue |-> tot.total_revenue,
                 remaining_tokens |-> tot.remaining_tokens + row.amount]
           [] row.label = "Sell" ->
                [total_cost |-> tot.total_cost,
                 total_revenue |-> tot.total_revenue + row.amount * pr[row.day],
                 remaining_tokens |-> tot.remaining_tokens - row.amount]
           [] OTHER -> tot

\* line 196: the condition of the warning after the loop
WarnsNegative_AtZero(rt) == rt <= 0
WarnsNegative(rt) == rt < 0

ValueStart ==
    /\ total_cost = 0
    /\ total_revenue = 0
    /\ remaining_tokens = 0
    /\ v_i = 0
    /\ warnings = <<>>
    /\ remaining_amount = 0
    /\ loss_free_price = ZeroPrice

ValueOff ==
    /\ trades = <<>>
    /\ v_prices = Empty
    /\ v_pc = "off"
    /\ ValueStart

\* the trade history file and the mapping get_historical_prices returned
ValueInit ==
    /\ \E n \in 0..MaxTrades : trades \in [1..n -> TradeRows]
    /\ \E ds \in SUBSET TradeDays : v_prices \in [ds -> UnitPrices]
    /\ v_pc = "ready"
    /\ ValueStart

\* lines 208-225: the date range of the rows; with no row start_date is None and
\* line 220 raises, which line 260 prints
ValueBegin ==
    /\ v_pc = "ready"
    /\ v_pc' = IF trades = <<>> THEN "error" ELSE "loop"
    /\ UNCHANGED <<trades, v_prices, total_cost, total_revenue, remaining_tokens, v_i,
                   warnings, remaining_amount, loss_free_price>>

\* lines 178-194: one row of the file
ProcessRow ==
    /\ v_pc = "loop"
    /\ v_i < Len(trades)
    /\ LET row == trades[v_i + 1]
           tot == ApplyTrade([total_cost |-> total_cost,
                              total_revenue |-> total_revenue,
                              remaining_tokens |-> remaining_tokens], row, v_prices)
       IN /\ total_cost' = tot.total_cost
          /\ total_revenue' = tot.total_revenue
          /\ remaining_tokens' = tot.remaining_tokens
          /\ warnings' = IF row.day \notin DOMAIN v_prices
                           THEN Append(warnings, "no price") ELSE warnings
    /\ v_i' = v_i + 1
    /\ UNCHANGED <<trades, v_prices, remaining_amount, loss_free_price, v_pc>>

\* lines 196-199: after the last row
ProcessEnd ==
    /\ v_pc = "loop"
    /\ v_i = Len(trades)
    /\ warnings' = IF WarnsNegative(remaining_tokens)
                     THEN Append(warnings, "negative") ELSE warnings
    /\ v_pc' = "result"
    /\ UNCHANGED <<trades, v_prices, total_cost, total_revenue, remaining_tokens, v_i,
                   remaining_amount, loss_free_price>>

\* lines 227-257: remaining_amount, loss_free_price and the result file
ValueResult ==
    /\ v_pc = "result"
    /\ remaining_amount' = total_cost - total_revenue
    /\ loss_free_price' = IF remaining_tokens > 0
                            THEN Quotient(remaining_amount', remaining_tokens)
                            ELSE ZeroPrice
    /\ v_pc' = "done"
    /\ UNCHANGED <<trades, v_prices, total_cost, total_revenue, remaining_tokens, v_i,
                   warnings>>

(***************************************************************************)
(* The rate limiter of the price API (calculate_loss_free_price.py).       *)
(***************************************************************************)
\* RATE_LIMIT_PERIOD / RATE_LIMIT_CALLS (lines 30-31): seconds between calls
MinInterval == RATE_LIMIT_PERIOD \div RATE_LIMIT_CALLS

\* the answers to a coin-id lookup and to a price request
CoinIdStatuses == {"200", "404", "429"}
PriceStatuses == {"200", "429", "other", "raise"}

RateOff ==
    /\ now = 0
    /\ last_call_time = 0
    /\ sent = <<>>
    /\ r_pc = "off"

\* main calls calculate_loss_free_price: last_call_time is 0 (line 19) and
\* time.time() is far above MinInterval
RateInit ==
    /\ now = MinInterval + 1
    /\ last_call_time = 0
    /\ sent = <<>>
    /\ r_pc = "coin_id"

\* line 35: last_call_time = time.time(), read after the sleep
StampTime_BeforeSleep(current_time, after_sleep) == current_time
StampTime(current_time, after_sleep) == after_sleep

\* rate_limit(), lines 25-35; time.sleep may return up to a second late
rate_limit ==
    LET current_time == now
        time_since_last_call == current_time - last_call_time
        sleep_time == IF time_since_last_call < MinInterval
                        THEN MinInterval - time_since_last_call
                        ELSE 0
    IN  \E late \in 0..(IF sleep_time > 0 THEN 1 ELSE 0) :
            /\ now' = now + sleep_time + late
            /\ last_call_time' = StampTime(current_time, now')

\* the request that leaves at the return of rate_limit()
Send(what, status) ==
    sent' = Append(sent, [at |-> now', what |-> what, status |-> status])

\* time passes: an answer is awaited, the trade history is read, a retry
\* waits RETRY_DELAY, a price is stored
Elapse ==
    /\ r_pc \in {"coin_id", "prices"}
    /\ now < MaxTime
    /\ now' = now + 1
    /\ UNCHANGED <<last_call_time, sent, r_pc>>

\* get_coin_id, lines 56-68: every answer but 200 raises ValueError
CoinIdRequest ==
    /\ r_pc = "coin_id"
    /\ rate_limit
    /\ \E status \in CoinIdStatuses :
         /\ Send("coin_id", status)
         /\ r_pc' = IF status = "200" THEN "prices" ELSE "done"

\* get_historical_prices, lines 130-131: a price request or its retry
PriceRequest ==
    /\ r_pc = "prices"
    /\ Len(sent) < MaxRequests
    /\ rate_limit
    /\ \E status \in PriceStatuses :
         Send(IF sent[Len(sent)].what # "coin_id"
                   /\ sent[Len(sent)].status \in {"429", "raise"}
                THEN "retry" ELSE "price", status)
    /\ UNCHANGED r_pc

(***************************************************************************)
(* Two processes that update the record file, each for its own key.        *)
(***************************************************************************)
\* the keys of the two runs
RunKeys == {Key, "token2_chain"}

UpdOff ==
    /\ u_pc = [k \in RunKeys |-> "off"]
    /\ u_records = [k \in RunKeys |-> [recs |-> Empty, ok |-> TRUE]]
    /\ u_block = [k \in RunKeys |-> 0]
    /\ u_written = [k \in RunKeys |-> -1]
    /\ u_calls = 0

\* neither run has reached line 201 yet
UpdInit ==
    /\ u_pc = [k \in RunKeys |-> "idle"]
    /\ u_records = [k \in RunKeys |-> [recs |-> Empty, ok |-> TRUE]]
    /\ u_block = [k \in RunKeys |-> 0]
    /\ u_written = [k \in RunKeys |-> -1]
    /\ u_calls = 0

\* lines 146-151: the run of key k calls update_event_log_record with the head
\* it read (above 0, line 193) and loads the record file
UpdateRead(k) ==
    /\ u_pc[k] = "idle"
    /\ u_calls < MaxCalls
    /\ u_calls' = u_calls + 1
    /\ \E blk \in Heads :
         /\ blk > 0
         /\ blk >= u_written[k]
         /\ u_block' = [u_block EXCEPT ![k] = blk]
    /\ u_records' = [u_records EXCEPT ![k] = [recs |-> records, ok |-> records_ok]]
    /\ u_pc' = [u_pc EXCEPT ![k] = "loaded"]
    /\ UNCHANGED <<records, records_ok, u_written>>

\* lines 153-159: set the key in the loaded records and write the whole file
UpdateWrite(k) ==
    /\ u_pc[k] = "loaded"
    /\ records' = update_event_log_record(u_records[k].recs, u_records[k].ok,
                                          k, u_block[k])
    /\ records_ok' = TRUE
    /\ u_written' = [u_written EXCEPT ![k] = u_block[k]]
    /\ u_pc' = [u_pc EXCEPT ![k] = "idle"]
    /\ UNCHANGED <<u_records, u_block, u_calls>>

(***************************************************************************)
(* Specifications.                                                         *)
(***************************************************************************)
Init == IngestInit /\ ClassOff /\ PriceOff /\ ValueOff /\ RateOff /\ UpdOff

Next ==
    \/ HeadAdvance /\ UNCHANGED <<classVars, priceVars, valueVars, rateVars, updVars>>
    \/ LoadNoFiles /\ UNCHANGED <<classVars, priceVars, valueVars, rateVars, updVars>>
    \/ LoadFiles /\ UNCHANGED <<classVars, priceVars, valueVars, rateVars, updVars>>
    \/ IncrScanStart /\ UNCHANGED <<classVars, priceVars, valueVars, rateVars, updVars>>
    \/ IncrNoNew /\ UNCHANGED <<classVars, priceVars, valueVars, rateVars, updVars>>
    \/ FullScanStart /\ UNCHANGED <<classVars, priceVars, valueVars, rateVars, updVars>>
    \/ RunDone /\ UNCHANGED <<classVars, priceVars, valueVars, rateVars, updVars>>
    \/ ScanCrash /\ UNCHANGED <<classVars, priceVars, valueVars, rateVars, updVars>>
    \/ ScanOk /\ UNCHANGED <<classVars, priceVars, valueVars, rateVars, updVars>>
    \/ ScanFail /\ UNCHANGED <<classVars, priceVars, valueVars, rateVars, updVars>>
    \/ IncrSave /\ UNCHANGED <<classVars, priceVars, valueVars, rateVars, updVars>>
    \/ IncrSaveFail /\ UNCHANGED <<classVars, priceVars, valueVars, rateVars, updVars>>
    \/ IncrCommit /\ UNCHANGED <<classVars, priceVars, valueVars, rateVars, updVars>>
    \/ IncrCommitFail /\ UNCHANGED <<classVars, priceVars, valueVars, rateVars, updVars>>
    \/ FullSave /\ UNCHANGED <<classVars, priceVars, valueVars, rateVars, updVars>>
    \/ FullSaveFail /\ UNCHANGED <<classVars, priceVars, valueVars, rateVars, updVars>>

\* ingestion runs of main for one key
Spec == Init /\ [][Next]_vars

ClassifyInit == IngestOff /\ ClassInit /\ PriceOff /\ ValueOff /\ RateOff /\ UpdOff

ClassifyNext == Classify /\ UNCHANGED <<ingestVars, priceVars, valueVars, rateVars, updVars>>

\* one call of process_transfer_events on bounded inputs
SpecClassify == ClassifyInit /\ [][ClassifyNext]_vars

PriceFillInit == IngestOff /\ ClassOff /\ PriceInit /\ ValueOff /\ RateOff /\ UpdOff

PriceFillNext ==
    \/ FillStart /\ UNCHANGED <<ingestVars, classVars, valueVars, rateVars, updVars>>
    \/ Fetch200 /\ UNCHANGED <<ingestVars, classVars, valueVars, rateVars, updVars>>
    \/ Fetch200Unformattable /\ UNCHANGED <<ingestVars, classVars, valueVars, rateVars, updVars>>
    \/ FetchNoData /\ UNCHANGED <<ingestVars, classVars, valueVars, rateVars, updVars>>
    \/ FetchOtherStatus /\ UNCHANGED <<ingestVars, classVars, valueVars, rateVars, updVars>>
    \/ Fetch429 /\ UNCHANGED <<ingestVars, classVars, valueVars, rateVars, updVars>>
    \/ FetchRaise /\ UNCHANGED <<ingestVars, classVars, valueVars, rateVars, updVars>>
    \/ SaveCache /\ UNCHANGED <<ingestVars, classVars, valueVars, rateVars, updVars>>
    \/ SaveCacheFail /\ UNCHANGED <<ingestVars, classVars, valueVars, rateVars, updVars>>

\* successive fills of the price cache of one coin
SpecPrice == PriceFillInit /\ [][PriceFillNext]_vars

ValueSpecInit == IngestOff /\ ClassOff /\ PriceOff /\ ValueInit /\ RateOff /\ UpdOff

ValueNext ==
    \/ ValueBegin /\ UNCHANGED <<ingestVars, classVars, priceVars, rateVars, updVars>>
    \/ ProcessRow /\ UNCHANGED <<ingestVars, classVars, priceVars, rateVars, updVars>>
    \/ ProcessEnd /\ UNCHANGED <<ingestVars, classVars, priceVars, rateVars, updVars>>
    \/ ValueResult /\ UNCHANGED <<ingestVars, classVars, priceVars, rateVars, updVars>>

\* one valuation of a trade history file against a price mapping
SpecValue == ValueSpecInit /\ [][ValueNext]_vars

\* the from_block arguments of a call of get_all_transfer_events
ScanFroms == {0, 1, 601, 1000, 1001}

\* get_all_transfer_events(w3, token_address, from_block) is called (lines 38-43)
ScanCallInit ==
    /\ head \in Heads
    /\ files = Empty
    /\ records = Empty
    /\ records_ok = TRUE
    /\ fail_budget = MaxScanFail
    /\ pc = "scan"
    /\ mode = "call"
    /\ events = <<>>
    /\ latest_recorded_block = 0
    /\ current_latest_block = 0
    /\ from_block \in ScanFroms
    /\ current_block = from_block
    /\ batch_size = InitBatchSize
    /\ latest_block = head
    /\ scan_events = <<>>
    /\ failed = <<>>
    /\ runs = 0
    /\ fails = 0
    /\ outcome = "none"
    /\ okRanges = {}
    /\ start = [files |-> files, records |-> records, head |-> head, stable |-> FALSE]

ScanSpecInit == ScanCallInit /\ ClassOff /\ PriceOff /\ ValueOff /\ RateOff /\ UpdOff

ScanNext ==
    \/ ScanCrash /\ UNCHANGED <<classVars, priceVars, valueVars, rateVars, updVars>>
    \/ ScanOk /\ UNCHANGED <<classVars, priceVars, valueVars, rateVars, updVars>>
    \/ ScanFail /\ UNCHANGED <<classVars, priceVars, valueVars, rateVars, updVars>>

\* one call of get_all_transfer_events under up to MaxScanFail failing queries
SpecScan == ScanSpecInit /\ [][ScanNext]_vars

RateSpecInit == IngestOff /\ ClassOff /\ PriceOff /\ ValueOff /\ RateInit /\ UpdOff

RateNext ==
    \/ Elapse /\ UNCHANGED <<ingestVars, classVars, priceVars, valueVars, updVars>>
    \/ CoinIdRequest /\ UNCHANGED <<ingestVars, classVars, priceVars, valueVars, updVars>>
    \/ PriceRequest /\ UNCHANGED <<ingestVars, classVars, priceVars, valueVars, updVars>>

\* the requests of one process to the price API, with the time between them
SpecRate == RateSpecInit /\ [][RateNext]_vars

KeysSpecInit == IngestOff /\ ClassOff /\ PriceOff /\ ValueOff /\ RateOff /\ UpdInit

KeysNext ==
    \/ (\E k \in RunKeys : UpdateRead(k))
           /\ UNCHANGED <<head, files, fail_budget, pc, mode, events, loadLocals, scanLocals,
                          runs, fails, outcome, okRanges, start,
                          classVars, priceVars, valueVars, rateVars>>
    \/ (\E k \in RunKeys : UpdateWrite(k))
           /\ UNCHANGED <<head, files, fail_budget, pc, mode, events, loadLocals, scanLocals,
                          runs, fails, outcome, okRanges, start,
                          classVars, priceVars, valueVars, rateVars>>

\* the commits of two runs for different keys, interleaved
SpecKeys == KeysSpecInit /\ [][KeysNext]_vars

\* the key of another token in event_log_record.json
OtherKey == "token2_chain"

\* both persisted files hold text that does not parse: the record file held the
\* record of another key, the cache file held the price of every day
MalformedInit ==
    /\ head \in Heads
    /\ files = Empty
    /\ records = (OtherKey :> 600)
    /\ records_ok = FALSE
    /\ fail_budget = MaxFail
    /\ IngestLocalsStart
    /\ ClassOff
    /\ ValueOff
    /\ RateOff /\ UpdOff
    /\ cache_file = [d \in Days |-> "1.0"]
    /\ cache_ok = FALSE
    /\ p_pc = "idle"
    /\ PriceLocalsStart

\* runs of main, or fills of the price cache, from the malformed files
MalformedNext ==
    \/ fills = 0 /\ Next
    \/ runs = 0 /\ PriceFillNext

SpecMalformed == MalformedInit /\ [][MalformedNext]_vars

(***************************************************************************)
(* Claims about ingestion, checked under Spec.                             *)
(***************************************************************************)
\* the run has just committed a checkpoint (line 201 wrote the record)
CommittedRun ==
    /\ pc = "check"
    /\ mode = "incr"
    /\ Key \in DOMAIN records
    /\ records # start.records

NoDup(s) == \A m, n \in 1..Len(s) : m # n => s[m] # s[n]

Range(s) == {s[n] : n \in 1..Len(s)}

\* the event file the next run would load
Stored == files[latest_file(files)]

\* C1: when a run has committed a checkpoint with latestBlock = B, every block
\* from the scan's start block through B lies in the range of a query of that run
\* that completed, and the logs of those blocks are in the event file stored
\* for B; a skipped sub-range is never below the committed checkpoint.
C1_CheckpointCoversOnlyScanned ==
    CommittedRun =>
        \A b \in from_block..records[Key] :
            /\ \E r \in okRanges : r[1] <= b /\ b <= r[2]
            /\ b \in LedgerBlocks =>
                   /\ records[Key] \in DOMAIN files
                   /\ [block_number |-> b] \in Range(files[records[Key]])

\* C2: the record of the key changes only in the step after the event file
\* holding the loaded plus newly scanned events was written, and a run that
\* ends in an exception leaves the record as it was when the run started; when
\* the exception ends the full scan of a run whose delta scan stored and committed
\* before it (C22), the record stays as that commit left it.
C2_StoreThenCheckpoint ==
    [][/\ records' # records =>
            /\ pc = "commit"
            /\ current_latest_block \in DOMAIN files
            /\ files[current_latest_block] = events
            /\ Len(events) >= Len(scan_events)
            /\ SubSeq(events, Len(events) - Len(scan_events) + 1, Len(events))
                   = scan_events
            /\ files' = files
       /\ (pc # "idle" /\ pc' = "idle" /\ outcome' = "crashed") =>
            records' = (IF mode = "full" THEN records ELSE start.records)]_vars

\* C2 witness: a run committed after storing newly scanned events
C2_Witness ==
    /\ CommittedRun
    /\ scan_events # <<>>
    /\ current_latest_block \in DOMAIN files
    /\ files[current_latest_block] = events

\* C3: every stored event file holds each ledger transfer at most once, also
\* after a run merged a newly scanned range into the stored events (stated for
\* the behaviours in which no query and no write raises).
C3_NoDuplicateEvents ==
    fails = 0 => \A f \in DOMAIN files : NoDup(files[f])

\* C4: a run that completes at the head at which the previous run started and
\* completed leaves the record file and the event files as they were.
C4_RerunIsNoOp ==
    (pc = "idle" /\ outcome = "done" /\ start.stable /\ head = start.head) =>
        (files = start.files /\ records = start.records)

\* C5: with no failure injected, after completed runs at strictly increasing
\* heads (each run wrote the file of a new head) the stored events are the
\* logs of FROM_BLOCK..head, each once: what one scan of the whole range gives.
C5_SuccessiveEqualsOneScan ==
    (/\ pc = "idle" /\ outcome = "done" /\ fails = 0
     /\ head = start.head
     /\ Cardinality(DOMAIN files) = runs) =>
        /\ Range(Stored) = LogsIn(FROM_BLOCK, head)
        /\ Len(Stored) = Cardinality(LogsIn(FROM_BLOCK, head))

\* C6: the latest_block recorded for a key never decreases, and a recorded key
\* stays recorded.
C6_CheckpointMonotonic ==
    [][\A k \in DOMAIN records :
           k \in DOMAIN records' /\ records'[k] >= records[k]]_vars

\* C6 witness: a run raised an existing checkpoint
C6_Witness ==
    /\ CommittedRun
    /\ Key \in DOMAIN start.records
    /\ records[Key] > start.records[Key]

\* C7: once the first run (the full scan done when no event file exists) has
\* completed and stored its events, a checkpoint exists whose latestBlock is
\* the block that scan ran through.
C7_FirstScanCreatesCheckpoint ==
    (/\ pc = "idle" /\ outcome = "done" /\ mode = "full"
     /\ DOMAIN start.files = {}) =>
        (Key \in DOMAIN records /\ records[Key] = latest_block)

(***************************************************************************)
(* Claims about the classifier, checked under SpecClassify.                *)
(***************************************************************************)
\* the role of an address when the two sets are disjoint
Role(a) ==
    IF a \in dex_addresses THEN "exchange"
    ELSE IF a \in user_addresses THEN "user"
    ELSE "unknown"

\* the rule table: from role, to role -> label
TableLabel(fr, tr) ==
    CASE fr = "exchange" /\ tr = "user" -> "Buy"
      [] fr = "user" /\ tr = "exchange" -> "Sell"
      [] fr = "user" /\ tr = "user" -> "Transfer within"
      [] fr = "unknown" /\ tr = "user" -> "Input unknown"
      [] fr = "user" /\ tr = "unknown" -> "Output unknown"
      [] OTHER -> "dropped"

\* the positions of the result that come from the k-th input event
TradesOf(k) == {n \in 1..Len(processed_events) : processed_events[n].block_number = k}

DisjointRoles == dex_addresses \cap user_addresses = {}

\* C8: for disjoint exchange and user sets the result holds exactly the input
\* events that match a rule of the table, in input order, each with the
\* table's label and its own endpoints and timestamp.
C8_ClassifierMatchesTable ==
    (c_pc = "done" /\ DisjointRoles) =>
        LET Kept == {k \in 1..Len(c_events) :
                        TableLabel(Role(c_events[k].from), Role(c_events[k].to))
                            # "dropped"}
        IN  /\ Len(processed_events) = Cardinality(Kept)
            /\ \A n \in 1..Len(processed_events) :
                 LET t == processed_events[n]
                 IN  /\ t.block_number \in Kept
                     /\ t.label = TableLabel(Role(c_events[t.block_number].from),
                                             Role(c_events[t.block_number].to))
                     /\ t.from = c_events[t.block_number].from
                     /\ t.to = c_events[t.block_number].to
                     /\ t.timestamp = c_events[t.block_number].timestamp
            /\ \A m, n \in 1..Len(processed_events) :
                 m < n => processed_events[m].block_number
                              < processed_events[n].block_number

\* C8 witness: disjoint sets, two events, the first dropped and the second a Buy
C8_Witness ==
    /\ c_pc = "done"
    /\ DisjointRoles
    /\ Len(c_events) = 2
    /\ Len(processed_events) = 1
    /\ processed_events[1].label = "Buy"
    /\ processed_events[1].block_number = 2

BothUnknown(e) ==
    /\ e.from \notin dex_addresses \cup user_addresses
    /\ e.to \notin dex_addresses \cup user_addresses

\* C9 as claimed: (also for disjoint sets) every event that has an endpoint in
\* the exchange set or in the user set yields exactly one LabeledTrade, so only
\* events with both endpoints unknown are dropped.
C9_DropsOnlyBothUnknown ==
    (c_pc = "done" /\ DisjointRoles) =>
        \A k \in 1..Len(c_events) :
            ~BothUnknown(c_events[k]) => Cardinality(TradesOf(k)) = 1

\* C9 as amended: an event is dropped exactly when neither endpoint is in the
\* user set; every other event yields exactly one LabeledTrade.
C9_DropsIffNoUserEndpoint ==
    c_pc = "done" =>
        \A k \in 1..Len(c_events) :
            Cardinality(TradesOf(k)) =
                (IF c_events[k].from \in user_addresses
                      \/ c_events[k].to \in user_addresses
                 THEN 1 ELSE 0)

\* C9 witness: an exchange-to-exchange event is dropped, a user-to-unknown
\* event of the same call is kept
C9_Witness ==
    /\ c_pc = "done"
    /\ DisjointRoles
    /\ Len(c_events) = 2
    /\ Role(c_events[1].from) = "exchange"
    /\ Role(c_events[1].to) = "exchange"
    /\ TradesOf(1) = {}
    /\ Role(c_events[2].from) = "user"
    /\ Role(c_events[2].to) = "unknown"
    /\ TradesOf(2) = {1}

(***************************************************************************)
(* Claims about the price cache, checked under SpecPrice.                  *)
(***************************************************************************)
\* C10: a date of the persisted cache stays in it with the same price in
\* every step: the set of known dates only grows.
C10_CacheOnlyGrows ==
    [][\A d \in DOMAIN cache_file :
           d \in DOMAIN cache_file' /\ cache_file'[d] = cache_file[d]]_vars

\* C10 witness: a second fill ended having added dates to a non-empty cache
C10_Witness ==
    /\ p_pc = "idle"
    /\ fills = 2
    /\ DOMAIN cache0 # {}
    /\ DOMAIN cache0 \subseteq DOMAIN cache_file
    /\ DOMAIN cache0 # DOMAIN cache_file
    /\ \A d \in DOMAIN cache0 : cache_file[d] = cache0[d]

\* the calendar days from the day of start_date to the day of end_date
DaysOfRange == req_days[1]..req_days[2]

\* a fill has returned
FillEnded == p_pc = "idle" /\ fills >= 1

\* C11: a fill sends no request for a date that is in the persisted cache, and a
\* date that the fill before requested and left absent is requested by the next
\* fill whose range of calendar days contains it.
C11_RequestsExactlyMissing ==
    /\ requested \cap DOMAIN cache0 = {}
    /\ (FillEnded /\ fills >= 2) =>
         \A d \in prev_absent : d \in DaysOfRange => d \in requested

\* C12: when every request of a fill got a 200 with data, the returned mapping
\* has a price for every calendar day from the day of start_date to the day of
\* end_date, whatever the times of day of the two instants.
C12_EveryDayOfRangePriced ==
    (FillEnded /\ all_ok) => \A d \in DaysOfRange : d \in DOMAIN prices

\* C13: a fill that sent at least one request ends by writing the merged cache:
\* the prices loaded at its start and every price fetched in it, and no other
\* date, whatever the answers were (the write itself not failing).
C13_FillEndsPersistingMerged ==
    (FillEnded /\ requested # {} /\ fill_end # "save_failed") =>
        /\ fill_end = "saved"
        /\ \A d \in DOMAIN cache0 : d \in DOMAIN cache_file /\ cache_file[d] = cache0[d]
        /\ \A d \in DOMAIN got : d \in DOMAIN cache_file /\ cache_file[d] = got[d]
        /\ DOMAIN cache_file \subseteq DOMAIN cache0 \cup requested

\* C13 witness: a fill was saved in which one date got its price and another
\* requested date was left absent
C13_Witness ==
    /\ FillEnded
    /\ fill_end = "saved"
    /\ DOMAIN got # {}
    /\ \E d \in requested : d \notin DOMAIN cache_file

\* C14: a date gets at most MAX_RETRIES requests; a price answered after 429s
\* stays recorded; a date answered 429 MAX_RETRIES times is left absent and the
\* fill is at the next date with retry_count 0.
C14_BoundedRetriesPerDate ==
    /\ cur_req.count <= MAX_RETRIES
    /\ \A d \in DOMAIN got : d \in DOMAIN prices /\ prices[d] = got[d]
    /\ cur_req.kind = "429s_then_200" =>
         /\ cur_req.count <= MAX_RETRIES
         /\ date_key(dates_to_fetch[cur_req.idx]) \in DOMAIN got
    /\ (cur_req.kind = "429s" /\ cur_req.count = MAX_RETRIES) =>
         /\ date_key(dates_to_fetch[cur_req.idx]) \notin DOMAIN prices
         /\ i = cur_req.idx
         /\ retry_count = 0
         /\ p_pc = (IF i < Len(dates_to_fetch) THEN "fetch"
                    ELSE IF fill_end = "running" THEN "save" ELSE "idle")

\* C14 witness: the first date was answered 429 MAX_RETRIES times and the fill is
\* about to request the second date
C14_Witness ==
    /\ cur_req = [idx |-> 1, count |-> MAX_RETRIES, kind |-> "429s", last |-> "429"]
    /\ p_pc = "fetch"
    /\ i = 1
    /\ retry_count = 0

\* the rows with the given label whose day has a price in the mapping
PricedRows(label) ==
    {k \in 1..Len(trades) : trades[k].label = label /\ trades[k].day \in DOMAIN v_prices}

\* sum of amount * price over a set of rows
RECURSIVE ValueOf(_)
ValueOf(S) ==
    IF S = {} THEN 0
    ELSE LET k == CHOOSE x \in S : TRUE
         IN trades[k].amount * v_prices[trades[k].day] + ValueOf(S \ {k})

\* sum of amount over a set of rows
RECURSIVE AmountOf(_)
AmountOf(S) ==
    IF S = {} THEN 0
    ELSE LET k == CHOOSE x \in S : TRUE
         IN trades[k].amount + AmountOf(S \ {k})

\* the trades Buy 100 at 1, Sell 40 at 2
ExampleTrades ==
    /\ trades = <<[label |-> "Buy", amount |-> 100, day |-> 0],
                  [label |-> "Sell", amount |-> 40, day |-> 1]>>
    /\ v_prices = (0 :> 1) @@ (1 :> 2)

\* C15: a finished valuation has total_cost = sum of amount * price over the
\* priced Buy rows, total_revenue the same over the priced Sell rows,
\* remaining_tokens = bought - sold, remaining_amount = total_cost -
\* total_revenue, loss_free_price = remaining_amount / remaining_tokens when
\* remaining_tokens > 0 and 0 otherwise; Buy 100 at 1, Sell 40 at 2 gives
\* total_cost 100, total_revenue 80, remaining_amount 20, remaining_tokens 60
\* and loss_free_price one third.
C15_ValuationFormulas ==
    v_pc = "done" =>
        /\ total_cost = ValueOf(PricedRows("Buy"))
        /\ total_revenue = ValueOf(PricedRows("Sell"))
        /\ remaining_tokens = AmountOf(PricedRows("Buy")) - AmountOf(PricedRows("Sell"))
        /\ remaining_amount = total_cost - total_revenue
        /\ loss_free_price = IF remaining_tokens > 0
                               THEN <<remaining_amount, remaining_tokens>>
                               ELSE <<0, 1>>
        /\ ExampleTrades =>
             /\ total_cost = 100
             /\ total_revenue = 80
             /\ remaining_amount = 20
             /\ remaining_tokens = 60
             /\ SameQuotient(loss_free_price, <<1, 3>>)

\* C15 witness: the valuation of Buy 100 at 1, Sell 40 at 2 is finished
C15_Witness ==
    /\ v_pc = "done"
    /\ ExampleTrades
    /\ remaining_tokens = 60

\* the warning of line 197 was printed
WarnedNegative == \E k \in 1..Len(warnings) : warnings[k] = "negative"

\* C16 as stated: whenever remaining_tokens <= 0 after all rows, loss_free_price
\* is 0 and a warning is emitted, for a negative remainder and for exactly 0.
C16_ZeroPriceAndWarningIfNotPositive ==
    (v_pc = "done" /\ remaining_tokens <= 0) =>
        /\ SameQuotient(loss_free_price, <<0, 1>>)
        /\ WarnedNegative

\* C16 amended: whenever remaining_tokens <= 0 after all rows, loss_free_price is
\* 0; the warning is emitted exactly when remaining_tokens is negative.
C16_ZeroPriceWarningIfNegative ==
    v_pc = "done" =>
        /\ remaining_tokens <= 0 => SameQuotient(loss_free_price, <<0, 1>>)
        /\ WarnedNegative <=> remaining_tokens < 0

\* C16 witness: a valuation finished with everything bought sold again
C16_Witness ==
    /\ v_pc = "done"
    /\ remaining_tokens = 0
    /\ PricedRows("Buy") # {}
    /\ PricedRows("Sell") # {}

\* the row about to be read has no price for its day, or a label other than
\* Buy and Sell
NextRowSkipped ==
    /\ v_pc = "loop"
    /\ v_i < Len(trades)
    /\ \/ trades[v_i + 1].day \notin DOMAIN v_prices
       \/ trades[v_i + 1].label \notin {"Buy", "Sell"}

\* C17: reading a row whose day has no price, or whose label is neither Buy nor
\* Sell, leaves total_cost, total_revenue and remaining_tokens unchanged, and the
\* loop goes on with the following row.
C17_SkippedRowLeavesTotals ==
    [][NextRowSkipped =>
         /\ total_cost' = total_cost
         /\ total_revenue' = total_revenue
         /\ remaining_tokens' = remaining_tokens
         /\ v_i' = v_i + 1
         /\ v_pc' = "loop"]_vars

\* C17 witness: a valuation finished whose first row had no price and whose
\* second row, a priced Buy, was counted
C17_Witness ==
    /\ v_pc = "done"
    /\ Len(trades) = 2
    /\ trades[1].day \notin DOMAIN v_prices
    /\ trades[2].label = "Buy"
    /\ trades[2].day \in DOMAIN v_prices
    /\ total_cost = trades[2].amount * v_prices[trades[2].day]
    /\ warnings = <<"no price">>

\* C18: while a persisted file does not parse no step writes over it: the
\* records of other keys stay in the record file, and the price cache file is not
\* replaced by one that lacks a date it held.
C18_MalformedStateNotOverwritten ==
    [][/\ ~records_ok =>
            \A k \in DOMAIN records \ {Key} :
                k \in DOMAIN records' /\ records'[k] = records[k]
       /\ ~cache_ok => DOMAIN cache_file \subseteq DOMAIN cache_file']_vars

\* the scan has returned its events
ScanReturned == pc = "returned"

\* C19: a scan in which exactly one query failed (get_logs raised, nothing
\* appended) returns the events that the scan of the same range without a failure
\* returns: every log of from_block..latest_block, once.
C19_OneFailureSameEvents ==
    (/\ ScanReturned
     /\ Len(failed) = 1
     /\ failed[1].appended = 0) =>
        /\ Range(scan_events) = LogsIn(from_block, latest_block)
        /\ NoDup(scan_events)

\* the step is the except branch that gives the sub-range up (lines 112-117), in
\* a scan of a range that is not empty
SkipStep ==
    /\ pc = "scan"
    /\ from_block <= latest_block
    /\ fails' = fails + 1
    /\ batch_size <= HalveThreshold

\* C20: a query is retried a bounded number of times before its sub-range is
\* skipped, and a skip moves the cursor strictly forward, so that the scan ends
\* under every pattern of failures.
C20_SkipMovesCursorForward ==
    [][SkipStep => current_block' > current_block]_vars

\* the events are in non-decreasing order of block number
Ascending(s) ==
    \A m, n \in 1..Len(s) : m < n => s[m].block_number <= s[n].block_number

\* C21: the event sequence returned by one scan is in non-decreasing
\* block-number order, whatever order the ledger returns the logs of a batch in
\* and whatever queries fail and are retried.
C21_ReturnedEventsAscending ==
    ScanReturned => Ascending(scan_events)

\* the event files of the key that existed when the run started
FilesAtStart == DOMAIN start.files

\* C22: a run does a full scan from the configured start block exactly when no
\* event file of the key exists when it starts; when one exists, also one that
\* holds zero events, the run scans only the delta from checkpoint+1 to the head,
\* each block at most once.
C22_FullScanIffNoFile ==
    /\ mode = "full" => FilesAtStart = {}
    /\ (runs > 0 /\ FilesAtStart = {} /\ pc # "check") => mode = "full"
    /\ mode = "incr" =>
           /\ from_block = latest_recorded_block + 1
           /\ \A r1, r2 \in okRanges :
                  r1 # r2 => (r1[2] < r2[1] \/ r2[2] < r1[1])

\* the scan was called with a start block above the head read at line 43
StartAboveHead == from_block > latest_block

\* C23: in a scan whose start block is greater than the chain head no step
\* appends an event, and the step of a query that completes returns: the scan
\* ends with the empty sequence.
C23_StartAboveHeadReturnsEmpty ==
    [][(pc = "scan" /\ StartAboveHead) =>
           /\ scan_events' = <<>>
           /\ fails' = fails => (pc' = "returned" /\ okRanges' # okRanges)]_vars

\* C23 witness: a scan that started above the head has returned, empty, after
\* one query completed
C23_Witness ==
    /\ ScanReturned
    /\ StartAboveHead
    /\ scan_events = <<>>
    /\ okRanges # {}

\* the step is the except branch of lines 107-117: a query of the scan failed
FailStep == pc = "scan" /\ fails' = fails + 1

\* C24: the first failure of a scan of a range that is not empty, at the
\* initial batch size, halves batch_size and keeps the cursor, so that the same
\* sub-range is queried again at half the size; a sub-range is skipped only
\* after halving.
C24_FirstFailureRetriesAtHalf ==
    [][(FailStep /\ failed = <<>> /\ from_block <= latest_block) =>
           /\ batch_size = InitBatchSize
           /\ batch_size' = batch_size \div 2
           /\ current_block' = current_block
           /\ pc' = "scan"]_vars

\* the blocks of a query range <<from, to>>
BlocksOf(r) == r[1]..r[2]

\* the scan is over: it returned, or an exception left it
ScanEnded == pc # "scan"

\* C27: within one scan the block ranges of the queries that completed are
\* pairwise disjoint, and when the scan is over and no query failed every block
\* from from_block to latest_block lies in the range of exactly one of them.
C27_OkRangesDisjointAndCovering ==
    /\ \A r1, r2 \in okRanges :
           r1 # r2 => BlocksOf(r1) \cap BlocksOf(r2) = {}
    /\ (ScanEnded /\ failed = <<>>) =>
           \A b \in from_block..latest_block :
               Cardinality({r \in okRanges : b \in BlocksOf(r)}) = 1

\* C29: the sequence returned by one scan holds each ledger log at most once,
\* also when a query failed after some logs of its batch were appended and the
\* sub-range was queried again.
C29_ReturnedEventsNoDup ==
    ScanReturned => NoDup(scan_events)

\* C30: a scan whose start block equals the head completes and returns the
\* events of that one block.
C30_OneBlockScanReturns ==
    (ScanEnded /\ from_block = latest_block) =>
        /\ ScanReturned
        /\ Range(scan_events) = LogsIn(from_block, latest_block)

\* the addresses that are in the exchange set and in the user set
Overlap == dex_addresses \cap user_addresses

\* the label the result gives the k-th input event, "skip" if it was dropped
LabelGiven(k) ==
    IF TradesOf(k) = {} THEN "skip"
    ELSE processed_events[CHOOSE n \in TradesOf(k) : TRUE].label

\* the k-th input event has the address a as an endpoint
Involves(k, a) == c_events[k].from = a \/ c_events[k].to = a

\* C28 as claimed: every event involving an address of both sets gets the label,
\* or the drop, it would get if that address were in the exchange set only.
C28_OverlapLabelledAsExchangeOnly ==
    c_pc = "done" =>
        \A a \in Overlap : \A k \in 1..Len(c_events) :
            Involves(k, a) =>
                LabelGiven(k) = LabelOf(c_events[k].from, c_events[k].to,
                                        dex_addresses, user_addresses \ {a})

\* the label of an event between an address of both sets and the address
\* other, sent by the former (sends) or received by it
OverlapLabel(sends, other) ==
    IF other \in Overlap THEN "Buy"
    ELSE IF other \in user_addresses THEN (IF sends THEN "Buy" ELSE "Sell")
    ELSE IF other \in dex_addresses THEN (IF sends THEN "Sell" ELSE "Buy")
    ELSE (IF sends THEN "Output unknown" ELSE "Input unknown")

\* C28 as amended: the first rule that matches wins, and an event involving an
\* address of both sets is never dropped. Against an address of the user set
\* only it gets the label of exchange-only membership (Buy when the address
\* sends, Sell when it receives); against an address of the exchange set only
\* or of neither set it gets the label of user-only membership (Sell or Output
\* unknown when it sends, Buy or Input unknown when it receives); against an
\* address of both sets, itself included, it is a Buy.
C28_OverlapFirstMatchingRule ==
    c_pc = "done" =>
        \A a \in Overlap : \A k \in 1..Len(c_events) :
            LET e == c_events[k]
            IN  Involves(k, a) =>
                    /\ Cardinality(TradesOf(k)) = 1
                    /\ LabelGiven(k) =
                         (IF e.from = a THEN OverlapLabel(TRUE, e.to)
                          ELSE OverlapLabel(FALSE, e.from))

\* C28 witness: an address of both sets sent to a user-only address, labelled
\* Buy, and to an unknown address, labelled Output unknown
C28_Witness ==
    /\ c_pc = "done"
    /\ Len(c_events) = 2
    /\ c_events[1].from \in Overlap
    /\ c_events[1].to \in user_addresses \ dex_addresses
    /\ LabelGiven(1) = "Buy"
    /\ c_events[2].from \in Overlap
    /\ c_events[2].to \notin dex_addresses \cup user_addresses
    /\ LabelGiven(2) = "Output unknown"

\* the step sends a request for dates_to_fetch[i] that is answered with status
FetchStep(status) ==
    /\ p_pc = "fetch"
    /\ cur_req' # cur_req
    /\ cur_req'.last = status

\* C25 as claimed: a request answered with an error status other than 429, or
\* one that raises, is the only request sent for its date and the fill moves to
\* the next date.
C25_OtherFailureNotRetried ==
    [][(FetchStep("other") \/ FetchStep("raise")) =>
           /\ i' = i + 1
           /\ cur_req'.count = 1]_vars

\* C25 as amended: an answer with an error status other than 429 is not
\* retried, the fill moves to the next date; a request that raises is sent again
\* for the same date until MAX_RETRIES requests were sent for it, and only then
\* the fill moves to the next date.
C25_StatusNotRetriedRaiseRetried ==
    [][/\ FetchStep("other") => (i' = i + 1 /\ retry_count' = 0)
       /\ FetchStep("raise") =>
            /\ cur_req'.count <= MAX_RETRIES
            /\ IF cur_req'.count < MAX_RETRIES
                 THEN i' = i /\ p_pc' = "fetch"
                 ELSE i' = i + 1 /\ retry_count' = 0]_vars

\* C25 witness: the requests of the first date raised until MAX_RETRIES were
\* sent, and the fill has moved to the next date
C25_Witness ==
    /\ cur_req.idx = 1
    /\ cur_req.last = "raise"
    /\ cur_req.count = MAX_RETRIES
    /\ i = 1
    /\ retry_count = 0

\* C26: any two consecutive requests to the price API in one process (the
\* coin-id lookup, price requests and their retries, after any answer) are at
\* least MinInterval = 2 seconds apart.
C26_RequestsSpaced ==
    \A k \in 2..Len(sent) : sent[k].at - sent[k - 1].at >= MinInterval

\* C26 witness: the first price request left MinInterval after the coin-id
\* lookup, was answered with an error status, and the request of the next date
\* left MinInterval after it
C26_Witness ==
    /\ Len(sent) = 3
    /\ sent[1].what = "coin_id"
    /\ sent[2].at - sent[1].at = MinInterval
    /\ sent[2].status = "other"
    /\ sent[3].what = "price"
    /\ sent[3].at - sent[2].at = MinInterval

\* C31: the block number an incremental run commits as checkpoint is the upper
\* bound its scan ran through, the head read once at the start of that scan,
\* also when the head advances while the run is in progress.
C31_CheckpointIsScanBound ==
    CommittedRun => records[Key] = latest_block

\* C32: two runs for different keys that interleave do not interfere through
\* the record file: a write for one key neither changes nor removes the record
\* of another key, so that the file holds for each key the block its run wrote
\* last.
C32_KeysDoNotInterfere ==
    \A k \in RunKeys :
        u_written[k] # -1 => (k \in DOMAIN records /\ records[k] = u_written[k])

\* the highest block number among the stored event files
HighestFile(fs) == CHOOSE f \in DOMAIN fs : \A g \in DOMAIN fs : g <= f

\* C33: the events a run loads are those of the stored event file with the
\* numerically highest block number, also when the block numbers of the files
\* have different digit counts.
C33_LoadsHighestBlockFile ==
    pc = "loaded" => events = files[HighestFile(files)]

\* process_trade_history on the rows in the given order: ApplyTrade row by row
RECURSIVE FoldTrades(_, _, _)
FoldTrades(rows, tot, pr) ==
    IF rows = <<>> THEN tot
    ELSE FoldTrades(Tail(rows), ApplyTrade(tot, Head(rows), pr), pr)

\* the valuation of the rows in the given order: the totals and the
\* loss-free price of lines 227-233
Valuation(rows, pr) ==
    LET tot == FoldTrades(rows, [total_cost |-> 0, total_revenue |-> 0,
                                 remaining_tokens |-> 0], pr)
    IN  [total_cost |-> tot.total_cost,
         total_revenue |-> tot.total_revenue,
         remaining_tokens |-> tot.remaining_tokens,
         loss_free_price |-> IF tot.remaining_tokens > 0
                               THEN Quotient(tot.total_cost - tot.total_revenue,
                                             tot.remaining_tokens)
                               ELSE ZeroPrice]

\* C34: in exact arithmetic the valuation a finished run computed from the rows
\* in file order (total_cost, total_revenue, remaining_tokens, loss_free_price)
\* is the valuation of every permutation of the rows.
C34_ValuationOrderIndependent ==
    v_pc = "done" =>
        \A q \in Perms(1..Len(trades)) :
            LET v == Valuation([k \in 1..Len(trades) |-> trades[q[k]]], v_prices)
            IN  /\ v.total_cost = total_cost
                /\ v.total_revenue = total_revenue
                /\ v.remaining_tokens = remaining_tokens
                /\ SameQuotient(v.loss_free_price, loss_free_price)

\* C34 witness: a finished valuation of a priced Sell followed by a priced Buy
\* of another amount
C34_Witness ==
    /\ v_pc = "done"
    /\ Len(trades) = 2
    /\ trades[1].label = "Sell"
    /\ trades[2].label = "Buy"
    /\ trades[1].amount # trades[2].amount
    /\ trades[1].day \in DOMAIN v_prices
    /\ trades[2].day \in DOMAIN v_prices
    /\ total_cost > 0
    /\ total_revenue > 0

====
